---- MODULE Spec2Model ----
(***************************************************************************)
(* Model of keras_tf_multigpu/callbacks.py: the three Keras callbacks      *)
(* BatchTiming, SamplesPerSec and CudaProfile, each driven by the host     *)
(* training loop through the Keras lifecycle hooks.                        *)
(*                                                                         *)
(* Reading of CudaProfile.on_batch_end (callbacks.py:104-106).  The line   *)
(*     if self.enabled && batch >= batches_to_profile:                     *)
(* is read as the conjunction it spells, with `batches_to_profile` and     *)
(* `cudaprofile` resolved to the constructor's parameter (kept in          *)
(* self.batches_to_profile) and to the module imported at line 89.  The    *)
(* body of the branch is the single statement cudaprofile.stop(): the      *)
(* method ends at line 106 and assigns nothing.                            *)
(*                                                                         *)
(* Times are integers (milliseconds); statistics are exact rationals.      *)
(***************************************************************************)
EXTENDS Integers, Sequences, FiniteSets, TLC

\* ------------------------------------------------------------------ bounds
MaxRuns == 2
MaxEpochs == 2
MaxBatches == 2
MaxWarmup == 2
MaxBtp == 2
MaxBatchSize == 2

\* ------------------------------------------------------------- environment
\* Readings of time.time() at on_batch_begin, and the time a batch may take.
Starts == {0, 7}
Elapsed == {0, 50, 100}
\* The unset default of CudaProfile's batches_to_profile (callbacks.py:91).
None == -1

VARIABLES
    \* host training loop
    pc, run, epoch, batch, ends, exc, python,
    \* BatchTiming
    bt_attrs, all_batch_times, all_epoch_times, epoch_batch_times, start_time, bt_out,
    \* SamplesPerSec
    sps_attrs, batch_size, all_samples_per_sec, sps_start_time, sps_out,
    \* CudaProfile and the external profiler
    warmup_epochs, batches_to_profile, enabled, profiler,
    \* observation of the run: elapsed times per epoch, the scripted timing,
    \* and the wall clock as time.time() last read it
    hist, sched, clock

hostVars == <<pc, run, epoch, batch, ends, exc, python>>
btVars == <<bt_attrs, all_batch_times, all_epoch_times, epoch_batch_times, start_time, bt_out>>
spsVars == <<sps_attrs, batch_size, all_samples_per_sec, sps_start_time, sps_out>>
cpVars == <<warmup_epochs, batches_to_profile, enabled, profiler>>
obsVars == <<hist, sched, clock>>
vars == <<hostVars, btVars, spsVars, cpVars, obsVars>>

\* ------------------------------------------------------------- arithmetic
Abs(x) == IF x < 0 THEN -x ELSE x

RECURSIVE GCD(_, _)
GCD(a, b) == IF b = 0 THEN a ELSE GCD(b, a % b)

\* Exact rationals n/d in lowest terms, d > 0.
Rat(n, d) ==
    LET g == GCD(Abs(n), Abs(d))
        s == IF d < 0 THEN -1 ELSE 1
    IN [n |-> (s * n) \div g, d |-> (s * d) \div g]

NaN == [n |-> 0, d |-> 0]
RatMean(a, b) == Rat(a.n * b.d + b.n * a.d, 2 * a.d * b.d)
ToRat(s) == [i \in 1..Len(s) |-> Rat(s[i], 1)]

\* np.sum over a list of numbers; 0 for the empty list.
RECURSIVE np_sum(_)
np_sum(s) == IF s = <<>> THEN 0 ELSE Head(s) + np_sum(Tail(s))

np_median_unsorted(s) ==
    LET len == Len(s)
        h == len \div 2
    IN IF len = 0 THEN NaN
       ELSE IF len % 2 = 1 THEN s[h + 1]
       ELSE RatMean(s[h], s[h + 1])

\* np.median over a list of rationals: the middle element of the sorted list,
\* the mean of the two middle elements for an even length, nan for the empty list.
np_median(s) ==
    LET srt == SortSeq(s, LAMBDA a, b : a.n * b.d < b.n * a.d)
        len == Len(s)
        h == len \div 2
    IN IF len = 0 THEN NaN
       ELSE IF len % 2 = 1 THEN srt[h + 1]
       ELSE RatMean(srt[h], srt[h + 1])

\* ---------------------------------------------------------------- the host
\* The training loop that calls the hooks: train-begin, {epoch-begin,
\* {batch-begin, batch-end}*, epoch-end}*, train-end, possibly run again on the
\* same callback instances.  epoch and batch are the indices handed to the hooks.
Raise(e) == /\ exc' = e
            /\ UNCHANGED <<pc, run, epoch, batch, ends, python>>

Host_train_begin(runs) ==
    /\ exc = "none" /\ pc \in {"idle", "done"} /\ run < runs
    /\ pc' = "train" /\ run' = run + 1 /\ epoch' = 0 /\ batch' = 0 /\ ends' = 0
    /\ UNCHANGED <<exc, python>>

Host_epoch_begin(epochs) ==
    /\ exc = "none" /\ pc = "train" /\ epoch < epochs
    /\ pc' = "epoch" /\ batch' = 0
    /\ UNCHANGED <<run, epoch, ends, exc, python>>

Host_batch_begin(batches) ==
    /\ exc = "none" /\ pc = "epoch" /\ batch < batches
    /\ pc' = "batch"
    /\ UNCHANGED <<run, epoch, batch, ends, exc, python>>

Host_batch_end ==
    /\ exc = "none" /\ pc = "batch"
    /\ pc' = "epoch" /\ batch' = batch + 1 /\ ends' = ends + 1
    /\ UNCHANGED <<run, epoch, exc, python>>

Host_epoch_end ==
    /\ exc = "none" /\ pc = "epoch"
    /\ pc' = "train" /\ epoch' = epoch + 1
    /\ UNCHANGED <<run, batch, ends, exc, python>>

Host_train_end ==
    /\ exc = "none" /\ pc = "train"
    /\ pc' = "done"
    /\ UNCHANGED <<run, epoch, batch, ends, exc, python>>

HostInit(pythons) ==
    /\ pc = "idle" /\ run = 0 /\ epoch = 0 /\ batch = 0 /\ ends = 0
    /\ exc = "none" /\ python \in pythons

\* State of an object whose constructor has not been run in this specification.
BTIdle == /\ bt_attrs = {} /\ all_batch_times = <<>> /\ all_epoch_times = <<>>
          /\ epoch_batch_times = <<>> /\ start_time = 0 /\ bt_out = <<>>
SPSIdle == /\ sps_attrs = {} /\ batch_size = 0 /\ all_samples_per_sec = <<>>
           /\ sps_start_time = 0 /\ sps_out = <<>>
CPIdle == /\ warmup_epochs = 0 /\ batches_to_profile = None /\ enabled = FALSE
          /\ profiler = <<>>
ObsIdle == hist = <<>> /\ sched = <<>> /\ clock = 0

\* ------------------------------------------------------------ CudaProfile
\* CudaProfile.__init__
CP_init_enabled(w, b) ==
    /\ warmup_epochs = w
    /\ batches_to_profile = b
    /\ enabled = TRUE

CP_init(w, b) ==
    /\ warmup_epochs = w
    /\ batches_to_profile = b
    /\ enabled = FALSE

\* A call of the external profiler, as the run observes it.
Call(op) == [op |-> op, epoch |-> epoch, batch |-> batch, pc |-> pc, ends |-> ends']

\* CudaProfile.on_epoch_begin(epoch)
CP_on_epoch_begin_ge(ep) ==
    IF ep >= warmup_epochs
    THEN /\ profiler' = Append(profiler, Call("start"))
         /\ enabled' = TRUE
         /\ UNCHANGED <<warmup_epochs, batches_to_profile>>
    ELSE UNCHANGED cpVars

CP_on_epoch_begin(ep) ==
    IF ep = warmup_epochs
    THEN /\ profiler' = Append(profiler, Call("start"))
         /\ enabled' = TRUE
         /\ UNCHANGED <<warmup_epochs, batches_to_profile>>
    ELSE UNCHANGED cpVars

\* batch >= batches_to_profile.  An int compares greater than None in
\* Python 2; Python 3 raises TypeError.
GE(b, n) == IF n = None THEN TRUE ELSE b >= n

\* CudaProfile.on_batch_end(batch): the branch calls cudaprofile.stop().
CP_on_batch_end_count(b) ==
    IF enabled /\ GE(b + 1, batches_to_profile)
    THEN /\ profiler' = Append(profiler, Call("stop"))
         /\ UNCHANGED <<warmup_epochs, batches_to_profile, enabled>>
    ELSE UNCHANGED cpVars

CP_on_batch_end_gt(b) ==
    IF enabled /\ GE(b, batches_to_profile) /\ b # batches_to_profile
    THEN /\ profiler' = Append(profiler, Call("stop"))
         /\ UNCHANGED <<warmup_epochs, batches_to_profile, enabled>>
    ELSE UNCHANGED cpVars

CP_on_batch_end(b) ==
    IF enabled /\ GE(b, batches_to_profile)
    THEN /\ profiler' = Append(profiler, Call("stop"))
         /\ UNCHANGED <<warmup_epochs, batches_to_profile, enabled>>
    ELSE UNCHANGED cpVars

CP_TypeError == enabled /\ batches_to_profile = None /\ python = "py3"

CPInit ==
    /\ HostInit({"py2", "py3"}) /\ BTIdle /\ SPSIdle /\ ObsIdle
    /\ \E w \in 0..MaxWarmup, b \in (1..MaxBtp) \cup {None} : CP_init(w, b)
    /\ profiler = <<>>

\* The profiler log is the observation of one run: it starts empty at train-begin.
CP_TrainBegin ==
    /\ Host_train_begin(MaxRuns)
    /\ profiler' = <<>>
    /\ UNCHANGED <<warmup_epochs, batches_to_profile, enabled>>
    /\ UNCHANGED <<btVars, spsVars, obsVars>>

CP_EpochBegin ==
    /\ Host_epoch_begin(MaxEpochs)
    /\ CP_on_epoch_begin(epoch)
    /\ UNCHANGED <<btVars, spsVars, obsVars>>

CP_BatchBegin ==
    /\ Host_batch_begin(MaxBatches)
    /\ UNCHANGED <<cpVars, btVars, spsVars, obsVars>>

CP_BatchEnd ==
    /\ ~CP_TypeError
    /\ Host_batch_end
    /\ CP_on_batch_end(batch)
    /\ UNCHANGED <<btVars, spsVars, obsVars>>

CP_BatchEndRaises ==
    /\ exc = "none" /\ pc = "batch"
    /\ CP_TypeError
    /\ Raise("TypeError")
    /\ UNCHANGED <<cpVars, btVars, spsVars, obsVars>>

CP_EpochEnd ==
    /\ Host_epoch_end
    /\ UNCHANGED <<cpVars, btVars, spsVars, obsVars>>

CP_TrainEnd ==
    /\ Host_train_end
    /\ UNCHANGED <<cpVars, btVars, spsVars, obsVars>>

CPNext ==
    \/ CP_TrainBegin \/ CP_EpochBegin \/ CP_BatchBegin \/ CP_BatchEnd
    \/ CP_BatchEndRaises \/ CP_EpochEnd \/ CP_TrainEnd

SpecCP == CPInit /\ [][CPNext]_vars

\* ------------------------------------------------------------ BatchTiming
\* bt_attrs holds the attributes assigned on the instance so far, each with the
\* run whose hook assigned it last: a hook that reads a name not in it raises
\* AttributeError.  bt_out holds the lines
\* printed in the current run, as the values handed to the format.
AttrNames(attrs) == {p[1] : p \in attrs}
Assign(attrs, names) ==
    {p \in attrs : p[1] \notin names} \cup {<<n, run'>> : n \in names}

BT_Reads(names) == names \subseteq AttrNames(bt_attrs)

\* BatchTiming.on_train_begin
BT_on_train_begin_once ==
    IF "all_batch_times" \in AttrNames(bt_attrs)
    THEN UNCHANGED <<bt_attrs, all_batch_times, all_epoch_times, epoch_batch_times,
                     start_time>>
    ELSE /\ all_batch_times' = <<>>
         /\ all_epoch_times' = <<>>
         /\ bt_attrs' = Assign(bt_attrs, {"all_batch_times", "all_epoch_times"})
         /\ UNCHANGED <<epoch_batch_times, start_time>>

BT_on_train_begin ==
    /\ all_batch_times' = <<>>
    /\ all_epoch_times' = <<>>
    /\ bt_attrs' = Assign(bt_attrs, {"all_batch_times", "all_epoch_times"})
    /\ UNCHANGED <<epoch_batch_times, start_time>>

\* BatchTiming.on_epoch_begin
BT_on_epoch_begin_keep(ep) ==
    /\ epoch_batch_times' = (IF ep = 0 THEN <<>> ELSE epoch_batch_times)
    /\ bt_attrs' = Assign(bt_attrs, {"epoch_batch_times"})
    /\ UNCHANGED <<all_batch_times, all_epoch_times, start_time, bt_out>>

BT_on_epoch_begin_clear_all(ep) ==
    /\ epoch_batch_times' = <<>>
    /\ all_batch_times' = <<>>
    /\ bt_attrs' = Assign(bt_attrs, {"epoch_batch_times"})
    /\ UNCHANGED <<all_epoch_times, start_time, bt_out>>

BT_on_epoch_begin(ep) ==
    /\ epoch_batch_times' = <<>>
    /\ bt_attrs' = Assign(bt_attrs, {"epoch_batch_times"})
    /\ UNCHANGED <<all_batch_times, all_epoch_times, start_time, bt_out>>

\* BatchTiming.on_batch_begin; now is the reading of time.time()
BT_on_batch_begin_once(now) ==
    IF "start_time" \in AttrNames(bt_attrs)
    THEN UNCHANGED btVars
    ELSE /\ start_time' = now
         /\ bt_attrs' = Assign(bt_attrs, {"start_time"})
         /\ UNCHANGED <<all_batch_times, all_epoch_times, epoch_batch_times, bt_out>>

BT_on_batch_begin(now) ==
    /\ start_time' = now
    /\ bt_attrs' = Assign(bt_attrs, {"start_time"})
    /\ UNCHANGED <<all_batch_times, all_epoch_times, epoch_batch_times, bt_out>>

\* BatchTiming.on_batch_end; now is the reading of time.time()
BT_on_batch_end(now) ==
    LET end_time == now
        elapsed_time == end_time - start_time
    IN /\ epoch_batch_times' = Append(epoch_batch_times, elapsed_time)
       /\ all_batch_times' = Append(all_batch_times, elapsed_time)
       /\ UNCHANGED <<bt_attrs, all_epoch_times, start_time, bt_out>>

\* BatchTiming.on_epoch_end
BT_on_epoch_end_run_total(ep) ==
    LET epoch_time == np_sum(all_batch_times)
        median_batch_time == np_median(ToRat(epoch_batch_times))
    IN /\ all_epoch_times' = Append(all_epoch_times, epoch_time)
       /\ bt_out' = Append(bt_out, [line |-> "epoch", batch |-> median_batch_time,
                                    epoch |-> Rat(epoch_time, 1)])
       /\ UNCHANGED <<bt_attrs, all_batch_times, epoch_batch_times, start_time>>

BT_on_epoch_end_clear(ep) ==
    LET epoch_time == np_sum(epoch_batch_times)
        median_batch_time == np_median(ToRat(epoch_batch_times))
    IN /\ all_epoch_times' = Append(all_epoch_times, epoch_time)
       /\ bt_out' = Append(bt_out, [line |-> "epoch", batch |-> median_batch_time,
                                    epoch |-> Rat(epoch_time, 1)])
       /\ epoch_batch_times' = <<>>
       /\ UNCHANGED <<bt_attrs, all_batch_times, start_time>>

BT_on_epoch_end(ep) ==
    LET epoch_time == np_sum(epoch_batch_times)
        median_batch_time == np_median(ToRat(epoch_batch_times))
    IN /\ all_epoch_times' = Append(all_epoch_times, epoch_time)
       /\ bt_out' = Append(bt_out, [line |-> "epoch", batch |-> median_batch_time,
                                    epoch |-> Rat(epoch_time, 1)])
       /\ UNCHANGED <<bt_attrs, all_batch_times, epoch_batch_times, start_time>>

\* BatchTiming.on_train_end
BT_on_train_end ==
    LET median_batch_time == np_median(ToRat(all_batch_times))
        median_epoch_time == np_median(ToRat(all_epoch_times))
    IN /\ bt_out' = Append(bt_out, [line |-> "overall", batch |-> median_batch_time,
                                    epoch |-> median_epoch_time])
       /\ UNCHANGED <<bt_attrs, all_batch_times, all_epoch_times, epoch_batch_times,
                      start_time>>

\* A hook that reads an attribute no earlier hook has assigned.
BT_AttributeError ==
    /\ exc = "none"
    /\ Raise("AttributeError")
    /\ UNCHANGED <<btVars, spsVars, cpVars, obsVars>>

\* The elapsed times of the current run as the clock gave them, one list per
\* epoch begun.
RECURSIVE Flatten(_)
Flatten(ss) == IF ss = <<>> THEN <<>> ELSE Head(ss) \o Flatten(Tail(ss))
ObsEpoch == Append(hist, <<>>)
ObsBatch(d) == [hist EXCEPT ![Len(hist)] = Append(@, d)]

BT_TrainBegin(runs) ==
    /\ Host_train_begin(runs)
    /\ BT_on_train_begin
    /\ bt_out' = <<>> /\ hist' = <<>>
    /\ UNCHANGED <<sched, clock, spsVars, cpVars>>

BT_EpochBegin(epochs) ==
    /\ Host_epoch_begin(epochs)
    /\ BT_on_epoch_begin(epoch)
    /\ hist' = ObsEpoch
    /\ UNCHANGED <<sched, clock, spsVars, cpVars>>

BT_BatchBegin(batches, now) ==
    /\ Host_batch_begin(batches)
    /\ clock' = now
    /\ BT_on_batch_begin(now)
    /\ UNCHANGED <<hist, sched, spsVars, cpVars>>

\* The batch takes d: time.time() reads d more than at on_batch_begin.
BT_BatchEnd(d) ==
    IF BT_Reads({"start_time", "epoch_batch_times", "all_batch_times"})
    THEN /\ Host_batch_end
         /\ clock' = clock + d
         /\ BT_on_batch_end(clock + d)
         /\ hist' = ObsBatch(d)
         /\ UNCHANGED <<sched, spsVars, cpVars>>
    ELSE pc = "batch" /\ BT_AttributeError

BT_EpochEnd ==
    IF BT_Reads({"epoch_batch_times", "all_epoch_times"})
    THEN /\ Host_epoch_end
         /\ BT_on_epoch_end(epoch)
         /\ UNCHANGED <<spsVars, cpVars, obsVars>>
    ELSE pc = "epoch" /\ BT_AttributeError

BT_TrainEnd ==
    IF BT_Reads({"all_batch_times", "all_epoch_times"})
    THEN /\ Host_train_end
         /\ BT_on_train_end
         /\ UNCHANGED <<spsVars, cpVars, obsVars>>
    ELSE pc = "train" /\ BT_AttributeError

BTInit == HostInit({"py3"}) /\ BTIdle /\ SPSIdle /\ CPIdle /\ ObsIdle

BT_Train == BT_TrainBegin(MaxRuns)
BT_Epoch == BT_EpochBegin(MaxEpochs)
BT_Batch == \E now \in Starts : BT_BatchBegin(MaxBatches, now)
BT_BatchDone == \E d \in Elapsed : BT_BatchEnd(d)

BTNext ==
    \/ BT_Train \/ BT_Epoch \/ BT_Batch \/ BT_BatchDone \/ BT_EpochEnd \/ BT_TrainEnd

SpecBT == BTInit /\ [][BTNext]_vars

\* The same callback under a host whose clock follows a script: sched[e][b] is
\* the time batch b of epoch e takes, in a single run of Len(sched) epochs.
ScenarioTimes == {50, 100, 200, 300}
Schedules == [1..2 -> [1..3 -> ScenarioTimes]]

ScInit ==
    /\ HostInit({"py3"}) /\ BTIdle /\ SPSIdle /\ CPIdle
    /\ hist = <<>> /\ sched \in Schedules /\ clock = 0

Sc_Train == BT_TrainBegin(1)
Sc_Epoch == BT_EpochBegin(Len(sched))
Sc_Batch ==
    /\ pc = "epoch"
    /\ \E now \in Starts : BT_BatchBegin(Len(sched[epoch + 1]), now)
Sc_BatchDone == pc = "batch" /\ BT_BatchEnd(sched[epoch + 1][batch + 1])
Sc_EpochEnd == pc = "epoch" /\ batch = Len(sched[epoch + 1]) /\ BT_EpochEnd
Sc_TrainEnd == pc = "train" /\ epoch = Len(sched) /\ BT_TrainEnd

ScNext ==
    \/ Sc_Train \/ Sc_Epoch \/ Sc_Batch \/ Sc_BatchDone \/ Sc_EpochEnd \/ Sc_TrainEnd

SpecScenario == ScInit /\ [][ScNext]_vars

\* ---------------------------------------------------------- SamplesPerSec
\* sps_out holds the medians printed in the current run.
\* SamplesPerSec.__init__
SPS_init(bs) ==
    /\ batch_size = bs
    /\ sps_attrs = {<<"batch_size", 0>>}

SPS_Reads(names) == names \subseteq AttrNames(sps_attrs)

\* SamplesPerSec.on_train_begin
SPS_on_train_begin ==
    /\ all_samples_per_sec' = <<>>
    /\ sps_attrs' = Assign(sps_attrs, {"all_samples_per_sec"})
    /\ UNCHANGED <<batch_size, sps_start_time>>

\* SamplesPerSec.on_batch_begin
SPS_on_batch_begin(now) ==
    /\ sps_start_time' = now
    /\ sps_attrs' = Assign(sps_attrs, {"start_time"})
    /\ UNCHANGED <<batch_size, all_samples_per_sec, sps_out>>

SPS_on_batch_end_inverted(now) ==
    LET end_time == now
        elapsed_time == end_time - sps_start_time
        samples_per_sec == Rat(elapsed_time, batch_size * 1000)
    IN /\ all_samples_per_sec' = Append(all_samples_per_sec, samples_per_sec)
       /\ UNCHANGED <<sps_attrs, batch_size, sps_start_time, sps_out>>

\* SamplesPerSec.on_batch_end, for a non-zero elapsed time (milliseconds; the
\* sample is in samples per second).
SPS_on_batch_end(now) ==
    LET end_time == now
        elapsed_time == end_time - sps_start_time
        samples_per_sec == Rat(batch_size * 1000, elapsed_time)
    IN /\ all_samples_per_sec' = Append(all_samples_per_sec, samples_per_sec)
       /\ UNCHANGED <<sps_attrs, batch_size, sps_start_time, sps_out>>

\* SamplesPerSec.print_results
print_results == sps_out' = Append(sps_out, np_median(all_samples_per_sec))

\* SamplesPerSec.on_epoch_end
SPS_on_epoch_end_reset(ep) ==
    /\ print_results
    /\ all_samples_per_sec' = <<>>
    /\ UNCHANGED <<sps_attrs, batch_size, sps_start_time>>

SPS_on_epoch_end(ep) ==
    /\ print_results
    /\ UNCHANGED <<sps_attrs, batch_size, all_samples_per_sec, sps_start_time>>

SPS_Raise(e) ==
    /\ exc = "none"
    /\ Raise(e)
    /\ UNCHANGED <<btVars, spsVars, cpVars, obsVars>>

SPS_TrainBegin ==
    /\ Host_train_begin(MaxRuns)
    /\ SPS_on_train_begin
    /\ sps_out' = <<>> /\ hist' = <<>>
    /\ UNCHANGED <<sched, clock, btVars, cpVars>>

SPS_EpochBegin ==
    /\ Host_epoch_begin(MaxEpochs)
    /\ hist' = ObsEpoch
    /\ UNCHANGED <<sched, clock, btVars, spsVars, cpVars>>

SPS_BatchBegin ==
    \E now \in Starts :
        /\ Host_batch_begin(MaxBatches)
        /\ clock' = now
        /\ SPS_on_batch_begin(now)
        /\ UNCHANGED <<hist, sched, btVars, cpVars>>

\* The batch takes d and the elapsed time on_batch_end computes is not zero.
SPS_BatchEnd ==
    \E d \in Elapsed :
        /\ clock + d - sps_start_time # 0
        /\ IF SPS_Reads({"start_time", "batch_size", "all_samples_per_sec"})
           THEN /\ Host_batch_end
                /\ clock' = clock + d
                /\ SPS_on_batch_end(clock + d)
                /\ hist' = ObsBatch(d)
                /\ UNCHANGED <<sched, btVars, cpVars>>
           ELSE pc = "batch" /\ SPS_Raise("AttributeError")

\* The batch takes no measurable time: batch_size / 0.0 raises
\* ZeroDivisionError and nothing is appended.
SPS_BatchEndZero ==
    /\ \E d \in Elapsed : clock + d - sps_start_time = 0
    /\ pc = "batch"
    /\ IF SPS_Reads({"start_time", "batch_size"})
       THEN SPS_Raise("ZeroDivisionError")
       ELSE SPS_Raise("AttributeError")

SPS_EpochEnd ==
    IF SPS_Reads({"all_samples_per_sec"})
    THEN /\ Host_epoch_end
         /\ SPS_on_epoch_end(epoch)
         /\ UNCHANGED <<btVars, cpVars, obsVars>>
    ELSE pc = "epoch" /\ SPS_Raise("AttributeError")

SPS_TrainEnd ==
    /\ Host_train_end
    /\ UNCHANGED <<btVars, spsVars, cpVars, obsVars>>

SPSInit ==
    /\ HostInit({"py3"}) /\ BTIdle /\ CPIdle /\ ObsIdle
    /\ \E bs \in 1..MaxBatchSize : SPS_init(bs)
    /\ all_samples_per_sec = <<>> /\ sps_start_time = 0 /\ sps_out = <<>>

SPSNext ==
    \/ SPS_TrainBegin \/ SPS_EpochBegin \/ SPS_BatchBegin \/ SPS_BatchEnd
    \/ SPS_BatchEndZero \/ SPS_EpochEnd \/ SPS_TrainEnd

SpecSPS == SPSInit /\ [][SPSNext]_vars

\* ----------------------------------------- BatchTiming or SamplesPerSec
\* A host whose callback is the one that was constructed: a BatchTiming, or a
\* SamplesPerSec (the only one of the two with an __init__ that assigns).
HooksInit == BTInit \/ SPSInit
HooksNext ==
    \/ sps_attrs = {} /\ BT_Train
    \/ sps_attrs = {} /\ BT_Epoch
    \/ sps_attrs = {} /\ BT_Batch
    \/ sps_attrs = {} /\ BT_BatchDone
    \/ sps_attrs = {} /\ BT_EpochEnd
    \/ sps_attrs = {} /\ BT_TrainEnd
    \/ sps_attrs # {} /\ SPS_TrainBegin
    \/ sps_attrs # {} /\ SPS_EpochBegin
    \/ sps_attrs # {} /\ SPS_BatchBegin
    \/ sps_attrs # {} /\ SPS_BatchEnd
    \/ sps_attrs # {} /\ SPS_BatchEndZero
    \/ sps_attrs # {} /\ SPS_EpochEnd
    \/ sps_attrs # {} /\ SPS_TrainEnd

SpecHooks == HooksInit /\ [][HooksNext]_vars

\* ------------------------------------------------- CudaProfile: the claims
\* Positions of the calls of one kind in the profiler log of the current run.
Calls(op) == {i \in DOMAIN profiler : profiler[i].op = op}
Started == Calls("start") # {}
Stopped == Calls("stop") # {}
\* The first stop() after the start() logged at position j, if there is one.
FirstStopAfter(j) ==
    {i \in Calls("stop") : i > j /\ \A k \in Calls("stop") : k > j => i <= k}
\* on_epoch_begin(warmup_epochs) has been called in the current run.
WarmupEpochBegun ==
    /\ pc # "idle"
    /\ \/ epoch > warmup_epochs
       \/ epoch = warmup_epochs /\ pc \in {"epoch", "batch"}

IsSuffix(s, t) ==
    /\ Len(s) <= Len(t)
    /\ \A i \in 1..Len(s) : s[i] = t[Len(t) - Len(s) + i]
\* The number of epochs of the current run that on_epoch_end has closed.
EpochsDone == epoch

\* C7: the value on_epoch_end appends to all_epoch_times is the sum of the
\* elapsed times of exactly the batches of that epoch.
C7_Additivity ==
    /\ Len(all_epoch_times) <= Len(hist)
    /\ \A k \in 1..Len(all_epoch_times) : all_epoch_times[k] = np_sum(hist[k])

C7_Witness ==
    /\ Len(all_epoch_times) = 2
    /\ Len(hist[1]) = 2 /\ np_sum(hist[1]) > 0
    /\ Len(hist[2]) = 2 /\ all_epoch_times[2] > 0
    /\ all_epoch_times[1] # all_epoch_times[2]

\* C8 as stated: at every point of a run after train-begin, all_batch_times is
\* the concatenation of the batch times of the epochs begun in this run,
\* epoch_batch_times is a suffix of it, and all_epoch_times has one entry per
\* completed epoch of this run, in epoch order.
C8_Accumulators ==
    pc # "idle" =>
        /\ all_batch_times = Flatten(hist)
        /\ "epoch_batch_times" \in AttrNames(bt_attrs)
              => IsSuffix(epoch_batch_times, all_batch_times)
        /\ Len(all_epoch_times) = EpochsDone
        /\ \A k \in 1..Len(all_epoch_times) : all_epoch_times[k] = np_sum(hist[k])

\* C8 amended: the same, with epoch_batch_times a suffix of all_batch_times from
\* the first on_epoch_begin of the run on; inside an epoch it is the list of
\* that epoch's batch times.
C8_AccumulatorsFromFirstEpoch ==
    pc # "idle" =>
        /\ all_batch_times = Flatten(hist)
        /\ hist # <<>> => IsSuffix(epoch_batch_times, all_batch_times)
        /\ pc \in {"epoch", "batch"} => epoch_batch_times = hist[Len(hist)]
        /\ Len(all_epoch_times) = EpochsDone
        /\ \A k \in 1..Len(all_epoch_times) : all_epoch_times[k] = np_sum(hist[k])

C8_Witness ==
    /\ run = 2 /\ pc = "epoch" /\ epoch = 1
    /\ Len(epoch_batch_times) = 1 /\ Len(all_batch_times) = 3
    /\ all_batch_times[1] # all_batch_times[3]
    /\ Len(all_epoch_times) = 1

\* C10: two epochs of three batches taking 0.1, 0.2, 0.3 s and 0.05, 0.05,
\* 0.05 s: the first epoch reports total 0.6 and batch median 0.2, the second
\* total 0.15 and batch median 0.05, and on_train_end reports the epoch median
\* 0.375.
Scenario10 == << <<100, 200, 300>>, <<50, 50, 50>> >>

C10_EndToEnd ==
    (sched = Scenario10 /\ pc = "done") =>
        /\ Len(bt_out) = 3
        /\ bt_out[1].line = "epoch"
        /\ bt_out[1].epoch = Rat(600, 1) /\ bt_out[1].batch = Rat(200, 1)
        /\ bt_out[2].line = "epoch"
        /\ bt_out[2].epoch = Rat(150, 1) /\ bt_out[2].batch = Rat(50, 1)
        /\ bt_out[3].line = "overall"
        /\ bt_out[3].epoch = Rat(375, 1)

C10_Witness == sched = Scenario10 /\ pc = "done" /\ Len(bt_out) = 3

\* ----------------------------------------------- SamplesPerSec: the claims
Throughput(ds) == [i \in 1..Len(ds) |-> Rat(batch_size * 1000, ds[i])]

\* C9: the list whose median on_epoch_end prints holds one sample for every
\* on_batch_end since on_train_begin, over all the epochs of the run; no epoch
\* boundary resets it.
C9_WholeRunMedian ==
    pc # "idle" =>
        /\ Len(all_samples_per_sec) = ends
        /\ all_samples_per_sec = Throughput(Flatten(hist))
        /\ (pc = "train" /\ epoch >= 1)
              => /\ Len(sps_out) = epoch
                 /\ sps_out[Len(sps_out)] = np_median(Throughput(Flatten(hist)))

C9_Witness ==
    /\ pc = "train" /\ epoch = 2 /\ ends = 3
    /\ Len(hist[1]) = 2 /\ Len(hist[2]) = 1
    /\ hist[1][1] # hist[2][1]
    /\ sps_out[2] # np_median(Throughput(hist[2]))

\* C11 as stated: in the scenario of C10, on_train_end reports the overall
\* batch median 0.125 over the six recorded batch times.
C11_OverallBatchMedian125 ==
    (sched = Scenario10 /\ pc = "done") => bt_out[3].batch = Rat(125, 1)

\* C11 amended: on_train_end reports the overall batch median 0.075, the mean
\* of the two middle elements 0.05 and 0.1 of the six sorted batch times.
C11_OverallBatchMedian75 ==
    (sched = Scenario10 /\ pc = "done") =>
        /\ bt_out[3].line = "overall"
        /\ all_batch_times = <<100, 200, 300, 50, 50, 50>>
        /\ bt_out[3].batch = Rat(75, 1)

C11_Witness ==
    /\ sched = Scenario10 /\ pc = "done"
    /\ Len(all_batch_times) = 6 /\ bt_out[3].batch = Rat(75, 1)

\* The time the last batch of the run took, by the clock.
LastElapsed == hist[Len(hist)][Len(hist[Len(hist)])]
\* A step in which on_batch_end returns.
BatchEndStep == pc = "batch" /\ pc' = "epoch"

\* C12: every on_batch_end appends exactly one sample, batch_size / E, where
\* batch_size is the value given at construction and E the time elapsed since
\* the most recent on_batch_begin (E # 0, in seconds).
C12_SampleIsSizeOverElapsed ==
    [][/\ batch_size' = batch_size
       /\ BatchEndStep =>
             all_samples_per_sec' =
                 Append(all_samples_per_sec, Rat(batch_size * 1000, LastElapsed'))]_vars

C12_Witness ==
    /\ pc = "epoch" /\ batch = 2 /\ batch_size = 2 /\ sps_start_time = 7
    /\ all_samples_per_sec = <<Rat(20, 1), Rat(40, 1)>>

\* C13: when no time elapses between on_batch_begin and on_batch_end,
\* on_batch_end raises no error to the host loop and the run continues.
C13_ZeroElapsedNoError == exc # "ZeroDivisionError"

\* C14: samples are recorded by on_batch_end only; each on_batch_end appends
\* one sample, the time since the most recent on_batch_begin, to both
\* epoch_batch_times and all_batch_times; all_batch_times has as many samples
\* as on_batch_end was called since train-begin.
C14_TimerBracket ==
    [][/\ BatchEndStep =>
             /\ epoch_batch_times' = Append(epoch_batch_times, LastElapsed')
             /\ all_batch_times' = Append(all_batch_times, LastElapsed')
       /\ ~BatchEndStep =>
             /\ Len(epoch_batch_times') <= Len(epoch_batch_times)
             /\ Len(all_batch_times') <= Len(all_batch_times)
       /\ (pc = "epoch" /\ pc' = "batch") => start_time' = clock'
       /\ pc' # "idle" => Len(all_batch_times') = ends']_vars

C14_Witness ==
    /\ run = 1 /\ pc = "epoch" /\ epoch = 1 /\ batch = 1 /\ ends = 2
    /\ start_time = 7 /\ all_batch_times = <<50, 100>>
    /\ epoch_batch_times = <<100>>

\* C18: on_epoch_begin changes only epoch_batch_times, on_batch_begin only
\* start_time, on_batch_end leaves all_epoch_times alone, on_epoch_end changes
\* only all_epoch_times, and on_train_end changes no accumulator.
C18_Frame ==
    [][/\ (pc = "train" /\ pc' = "epoch") =>
             UNCHANGED <<all_batch_times, all_epoch_times, start_time>>
       /\ (pc = "epoch" /\ pc' = "batch") =>
             UNCHANGED <<all_batch_times, all_epoch_times, epoch_batch_times>>
       /\ BatchEndStep => UNCHANGED <<all_epoch_times, start_time>>
       /\ (pc = "epoch" /\ pc' = "train") =>
             UNCHANGED <<all_batch_times, epoch_batch_times, start_time>>
       /\ (pc = "train" /\ pc' = "done") =>
             UNCHANGED <<all_batch_times, all_epoch_times, epoch_batch_times,
                         start_time>>]_vars

C18_Witness ==
    /\ run = 2 /\ pc = "done" /\ epoch = 2
    /\ Len(all_batch_times) = 3 /\ Len(all_epoch_times) = 2
    /\ Len(epoch_batch_times) = 2 /\ start_time = 7

EpochsBegun == IF pc \in {"epoch", "batch"} THEN epoch + 1 ELSE epoch

AssignedThisRun(attrs, names) == \A n \in names : <<n, run>> \in attrs

C17_NoUndefinedRead ==
    /\ exc # "AttributeError"
    /\ IF sps_attrs = {}
       THEN /\ pc = "batch" => AssignedThisRun(bt_attrs,
                   {"start_time", "epoch_batch_times", "all_batch_times"})
            /\ pc = "epoch" => AssignedThisRun(bt_attrs,
                   {"epoch_batch_times", "all_epoch_times"})
            /\ pc = "train" => AssignedThisRun(bt_attrs,
                   {"all_batch_times", "all_epoch_times"})
       ELSE /\ pc = "batch" => AssignedThisRun(sps_attrs,
                   {"start_time", "all_samples_per_sec"})
            /\ pc = "epoch" => AssignedThisRun(sps_attrs, {"all_samples_per_sec"})

C17_Witness ==
    /\ run = 2 /\ pc = "batch" /\ sps_attrs = {} /\ exc = "none"
    /\ AssignedThisRun(bt_attrs, {"start_time", "epoch_batch_times", "all_batch_times"})

====
